---------------------------- MODULE Spec2Model ----------------------------
(***************************************************************************)
(* Model of the RAG layer of "Pipleline 2.0":                              *)
(*   rag/document_store.py  DocumentStore  (add / search / list / delete)  *)
(*   rag/rag_agent.py       RAGAgent       (search, context, generation)   *)
(*                                                                         *)
(* The vector index (a chromadb collection) is the sequence `index` of     *)
(* entries in insertion order.  The text extractors, the text splitter,    *)
(* the embedding service and the language model are capabilities the code  *)
(* calls; what they return for the files and queries of this model is      *)
(* tabulated below, and whether the remote ones fail is an input of each   *)
(* call.                                                                   *)
(*                                                                         *)
(* Distances and scores are in thousandths: cosine distance 0 .. 2 is      *)
(* 0 .. 2000, and a score is 1000 - distance.                              *)
(***************************************************************************)
EXTENDS Integers, Sequences, FiniteSets, TLC

\* ------------------------------------------------------------------ bounds

\* How many times add_document may be called (each call draws one uuid4).
MaxDocs == 2

\* The largest n_results a caller passes besides 0 and the default.
MaxN == 1

\* How many times add_document may be called in the agent's specification.
MaxAgentDocs == 1

\* ------------------------------------------------------- program constants

\* search_documents / search_knowledge_base / build_context_from_search
\* default, and the literal get_output_with_rag passes.
DefaultNResults == 5

\* Longest chunk text stored whole in the chunk_text metadata field.
PreviewLen == 100

\* "score": 1 - distance, in thousandths.
One == 1000

\* --------------------------------------------------------- the environment

\* uuid4 values, in the order they are drawn.  A caller only ever learns the
\* ones add_document returned.
UuidPool == <<"d1", "d2", "d3", "d4">>

\* An identifier no add_document call ever generated.
ForeignId == "ext"

\* The files a caller may submit.
Files == {"notes.txt", "lab.PDF", "empty.txt", "scan.docx", "slides.pptx"}

\* Path(file_path).suffix
Suffix(f) ==
    CASE f = "notes.txt"   -> ".txt"
      [] f = "lab.PDF"     -> ".PDF"
      [] f = "empty.txt"   -> ".txt"
      [] f = "scan.docx"   -> ".docx"
      [] f = "slides.pptx" -> ".pptx"

\* str.lower() on the suffixes above
Lower(s) ==
    CASE s = ".PDF" -> ".pdf"
      [] OTHER      -> s

\* Whether the format's parser reads the file (scan.docx is not a valid
\* archive: docx.Document raises).
Parses(f) == f # "scan.docx"

\* The chunks text_splitter.split_text produces for the text of each file;
\* a chunk is named by a token.  Empty text yields no chunk.
SplitText(f) ==
    CASE f = "notes.txt" -> <<"notes#0">>
      [] f = "lab.PDF"   -> <<"lab#0", "lab#1">>
      [] OTHER           -> <<>>

\* len(chunk)
ChunkLen(c) ==
    CASE c = "lab#1" -> 140
      [] OTHER      -> 60

\* The embedding model, as a direction 0, 1 or 2: equal directions are at
\* cosine distance 0, directions one apart at 1, directions two apart at 2.
EmbedText(t) ==
    CASE t = "notes#0" -> 1
      [] t = "lab#0"   -> 0
      [] t = "lab#1"   -> 2
      [] t = "q0"      -> 0
      [] OTHER         -> 0

\* Query strings.
Queries == {"q0"}

\* A user_query of None or "" (both falsy).
NoQuery == ""

\* self.basic_prompt of the agent
BasicPrompt == "basic_prompt"

Min(a, b) == IF a <= b THEN a ELSE b
Abs(x) == IF x < 0 THEN -x ELSE x

\* ------------------------------------------------------------------- state

VARIABLES
    index,          \* the collection: entries in insertion order
    uuids,          \* number of uuid4() draws so far
    returned,       \* doc id -> number of chunks produced, for every id
                    \* add_document returned (history)
    llm,            \* whether the agent has a language model
    retrieved_docs, \* RAGAgent.retrieved_docs
    agentSearch,    \* the most recent search the agent issued to the store
                    \* that returned (history)
    lastOp          \* the call that just completed, its inputs and outcome

vars == <<index, uuids, returned, llm, retrieved_docs, agentSearch, lastOp>>

\* dict.update: b's keys win
Update(a, b) ==
    [k \in (DOMAIN a) \cup (DOMAIN b) |-> IF k \in DOMAIN b THEN b[k] ELSE a[k]]

\* None, or an empty dict
NoMeta == <<>>


\* ------------------------------------------------- DocumentStore: ingestion

\* extract_text_from_file: dispatch on the lower-cased suffix; the outcome is
\* "ok", or the error raised.
ExtractTextFromFile(f) ==
    LET s == Lower(Suffix(f)) IN
    IF s = ".pdf" THEN (IF Parses(f) THEN "ok" ELSE "ExtractionError")
    ELSE IF s \in {".docx", ".doc"} THEN (IF Parses(f) THEN "ok" ELSE "ExtractionError")
    ELSE IF s = ".txt" THEN (IF Parses(f) THEN "ok" ELSE "ExtractionError")
    ELSE "UnsupportedFormat"

\* chunk[:100] + "..." if len(chunk) > 100 else chunk
Preview(c) ==
    [of |-> c, chars |-> Min(ChunkLen(c), PreviewLen), ellipsis |-> ChunkLen(c) > PreviewLen]

\* base_metadata, after the caller's mapping is merged in
BaseMetadata(f, d, k, meta) ==
    LET base == [source |-> f, doc_id |-> d, total_chunks |-> k] IN
    IF meta # NoMeta THEN Update(base, meta) ELSE base

\* f"{doc_id}_{i}": the document id and the index.  A uuid4 string has a
\* fixed length and no underscore, so a chunk id starts with d + "_" exactly
\* when its first component is d.
ChunkId(d, i) == <<d, i>>

StartsWithDoc(chunk_id, d) == chunk_id[1] = d

\* The batch handed to collection.add: ids, documents, embeddings, metadatas.
ChunkEntries(f, d, chunks, meta) ==
    [j \in 1..Len(chunks) |->
        [id        |-> ChunkId(d, j - 1),
         document  |-> chunks[j],
         embedding |-> EmbedText(chunks[j]),
         metadata  |-> Update(BaseMetadata(f, d, Len(chunks), meta),
                              [chunk_index |-> j - 1, chunk_text |-> Preview(chunks[j])])]]

\* collection.add: appends the batch; chromadb rejects an empty batch of ids
\* with a ValueError and writes nothing.
CollectionAdd(idx, batch) ==
    IF Len(batch) = 0
    THEN [outcome |-> "ValueError", index |-> idx]
    ELSE [outcome |-> "ok", index |-> idx \o batch]

\* Mutant of add_document: each chunk is embedded and written in turn, so an
\* embedding failure leaves the chunks before it in the index.
AddDocumentChunkwise(idx, d, f, meta, embedOK) ==
    LET ext    == ExtractTextFromFile(f)
        chunks == SplitText(f)
        batch  == ChunkEntries(f, d, chunks, meta)
        added  == CollectionAdd(idx, batch)
    IN  IF ext # "ok"
        THEN [outcome |-> ext, index |-> idx, k |-> 0, embeds |-> 0]
        ELSE IF ~embedOK
        THEN [outcome |-> "EmbeddingFailure",
              index |-> idx \o SubSeq(batch, 1, Min(1, Len(batch))),
              k |-> Len(chunks), embeds |-> 1]
        ELSE [outcome |-> added.outcome, index |-> added.index, k |-> Len(chunks), embeds |-> 1]

\* add_document, from the uuid drawn to the return or the raise.  embedOK:
\* whether the embedding service answers this call.
AddDocumentResult(idx, d, f, meta, embedOK) ==
    LET ext    == ExtractTextFromFile(f)
        chunks == SplitText(f)
        added  == CollectionAdd(idx, ChunkEntries(f, d, chunks, meta))
    IN  IF ext # "ok"
        THEN [outcome |-> ext, index |-> idx, k |-> 0, embeds |-> 0]
        ELSE IF ~embedOK
        THEN [outcome |-> "EmbeddingFailure", index |-> idx, k |-> Len(chunks), embeds |-> 1]
        ELSE [outcome |-> added.outcome, index |-> added.index, k |-> Len(chunks), embeds |-> 1]

\* The metadata mappings a caller passes: none, one that sets total_chunks,
\* and one that sets doc_id (to the caller's own identifier).
CallerMetadata == {NoMeta, [total_chunks |-> 7], [doc_id |-> ForeignId]}

AddDocument(f, meta, embedOK) ==
    /\ uuids < MaxDocs
    /\ LET d == UuidPool[uuids + 1]
           r == AddDocumentResult(index, d, f, meta, embedOK)
       IN  /\ uuids' = uuids + 1
           /\ index' = r.index
           /\ returned' = IF r.outcome = "ok"
                          THEN [x \in (DOMAIN returned) \cup {d} |->
                                   IF x = d THEN r.k ELSE returned[x]]
                          ELSE returned
           /\ lastOp' = [op |-> "add_document", outcome |-> r.outcome, file |-> f,
                         meta |-> meta, embedOK |-> embedOK, doc_id |-> d, k |-> r.k,
                         embeds |-> r.embeds, searches |-> 0]
    /\ UNCHANGED <<llm, retrieved_docs, agentSearch>>

\* ------------------------------------------- DocumentStore: list and delete

\* Exact-match, conjunctive metadata filter; NoMeta (None) restricts nothing.
Matches(md, where) ==
    \A key \in DOMAIN where : key \in DOMAIN md /\ md[key] = where[key]

\* collection.get(where=...)["ids"]
CollectionGetIds(idx, where) ==
    {idx[i].id : i \in {j \in DOMAIN idx : Matches(idx[j].metadata, where)}}

\* collection.delete(ids=...)
CollectionDelete(idx, ids) ==
    SelectSeq(idx, LAMBDA e : e.id \notin ids)

\* Mutant of delete_document: the chunks are found by their id prefix.
DeleteDocumentByPrefix(idx, doc_id) ==
    SelectSeq(idx, LAMBDA e : ~StartsWithDoc(e.id, doc_id))

\* delete_document
DeleteDocumentResult(idx, doc_id) ==
    LET ids == CollectionGetIds(idx, [doc_id |-> doc_id]) IN
    IF ids # {} THEN CollectionDelete(idx, ids) ELSE idx

\* get_all_documents: the first-seen metadata of every distinct doc_id, in
\* first-seen order.
RECURSIVE UniqueDocs(_, _)
UniqueDocs(mds, seen) ==
    IF mds = <<>> THEN <<>>
    ELSE IF Head(mds).doc_id \in seen
         THEN UniqueDocs(Tail(mds), seen)
         ELSE <<Head(mds)>> \o UniqueDocs(Tail(mds), seen \cup {Head(mds).doc_id})

GetAllDocumentsResult(idx) ==
    UniqueDocs([i \in DOMAIN idx |-> idx[i].metadata], {})

\* The ids a caller may ask to delete: any id generated so far, or one that
\* was never added.
KnownIds == {UuidPool[i] : i \in 1..uuids} \cup {ForeignId}

DeleteDocument(doc_id) ==
    /\ index' = DeleteDocumentResult(index, doc_id)
    /\ lastOp' = [op |-> "delete_document", outcome |-> "ok", doc_id |-> doc_id,
                  removed |-> Len(index) - Len(DeleteDocumentResult(index, doc_id)),
                  embeds |-> 0, searches |-> 0]
    /\ UNCHANGED <<uuids, returned, llm, retrieved_docs, agentSearch>>

GetAllDocuments ==
    /\ lastOp' = [op |-> "get_all_documents", outcome |-> "ok",
                  ret |-> GetAllDocumentsResult(index), embeds |-> 0, searches |-> 0]
    /\ UNCHANGED <<index, uuids, returned, llm, retrieved_docs, agentSearch>>


\* --------------------------------------------------- DocumentStore: search

\* Cosine distance between two embedded directions, in thousandths.
Distance(a, b) == Abs(a - b) * One

\* Every order of the positions S of idx by ascending distance to q: entries
\* at equal distance come in whatever order the index yields them.
RECURSIVE NearestFirst(_, _, _)
NearestFirst(idx, q, S) ==
    IF S = {} THEN {<<>>}
    ELSE LET near == {i \in S : \A j \in S :
                        Distance(q, idx[i].embedding) <= Distance(q, idx[j].embedding)}
         IN  UNION {{<<i>> \o t : t \in NearestFirst(idx, q, S \ {i})} : i \in near}

\* collection.query(query_embeddings=[q], n_results=n, where=where) for
\* n >= 1: the n nearest entries that match, nearest first, each with its
\* distance.
CollectionQuery(idx, q, n, where) ==
    LET S == {i \in DOMAIN idx : Matches(idx[i].metadata, where)} IN
    {[j \in 1..Min(n, Len(o)) |->
        [document |-> idx[o[j]].document,
         metadata |-> idx[o[j]].metadata,
         distance |-> Distance(q, idx[o[j]].embedding)]] : o \in NearestFirst(idx, q, S)}

\* Mutant of the score: the distance itself.
ScoreIsDistance(distance) == distance

\* "score": 1 - distance
Score(distance) == One - distance

\* The list search_documents builds from one query answer.
SearchResults(hits) ==
    [j \in DOMAIN hits |->
        [content  |-> hits[j].document,
         metadata |-> hits[j].metadata,
         score    |-> Score(hits[j].distance)]]

\* search_documents: the possible outcomes.  The query is embedded first (a
\* remote call that may fail); chromadb then rejects n_results <= 0.
SearchDocumentsResult(idx, query, n, where, embedOK) ==
    IF ~embedOK
    THEN {[outcome |-> "EmbeddingFailure", results |-> <<>>, embeds |-> 1]}
    ELSE IF n <= 0
    THEN {[outcome |-> "ValueError", results |-> <<>>, embeds |-> 1]}
    ELSE {[outcome |-> "ok", results |-> SearchResults(h), embeds |-> 1] :
             h \in CollectionQuery(idx, EmbedText(query), n, where)}

\* n_results values callers pass.
NResults == 0..MaxN \cup {DefaultNResults}

\* Metadata filters callers pass.
SearchFilters == {NoMeta, [source |-> "lab.PDF"]}

SearchDocuments(query, n, where, embedOK) ==
    /\ \E r \in SearchDocumentsResult(index, query, n, where, embedOK) :
         lastOp' = [op |-> "search_documents", outcome |-> r.outcome, query |-> query,
                    n |-> n, where |-> where, embedOK |-> embedOK, ret |-> r.results,
                    embeds |-> r.embeds, searches |-> 1]
    /\ UNCHANGED <<index, uuids, returned, llm, retrieved_docs, agentSearch>>

\* ------------------------------------------------------------------ RAGAgent

\* Mutant of search_knowledge_base: the result is returned but not cached.
SearchKnowledgeBaseNoCache(docs, idx, query, n, where, embedOK) ==
    {[outcome        |-> r.outcome,
      retrieved_docs |-> docs,
      ret            |-> r.results,
      issued         |-> <<[query |-> query, n |-> n, where |-> where,
                            outcome |-> r.outcome, results |-> r.results]>>,
      embeds         |-> r.embeds] :
        r \in SearchDocumentsResult(idx, query, n, where, embedOK)}

\* search_knowledge_base: the possible outcomes, given the cached docs.
\* `issued` lists the searches sent to the store, with what each returned.
SearchKnowledgeBaseResult(docs, idx, query, n, where, embedOK) ==
    {[outcome        |-> r.outcome,
      retrieved_docs |-> IF r.outcome = "ok" THEN r.results ELSE docs,
      ret            |-> r.results,
      issued         |-> <<[query |-> query, n |-> n, where |-> where,
                            outcome |-> r.outcome, results |-> r.results]>>,
      embeds         |-> r.embeds] :
        r \in SearchDocumentsResult(idx, query, n, where, embedOK)}

\* The string build_context_from_search returns, as its lines.
NoDocumentsFound == <<<<"No relevant documents found in the knowledge base.">>>>

SourceOf(md) == IF "source" \in DOMAIN md THEN md["source"] ELSE "Unknown"

RECURSIVE ContextParts(_, _)
ContextParts(results, i) ==
    IF i > Len(results) THEN <<>>
    ELSE << <<"">>,
            <<"--- Document", i, results[i].score>>,
            <<"Source:", SourceOf(results[i].metadata)>>,
            <<"Content:", results[i].content>> >> \o ContextParts(results, i + 1)

\* Mutant of the rendering: no fallback for an empty result set.
ContextOfNoFallback(results) ==
    << <<"Retrieved Knowledge Base Information:">> >> \o ContextParts(results, 1)

ContextOf(results) ==
    IF results = <<>> THEN NoDocumentsFound
    ELSE << <<"Retrieved Knowledge Base Information:">> >> \o ContextParts(results, 1)

\* build_context_from_search: searches with no filter, then renders.
BuildContextFromSearchResult(docs, idx, query, n, embedOK) ==
    {[outcome        |-> s.outcome,
      retrieved_docs |-> s.retrieved_docs,
      ret            |-> IF s.outcome = "ok" THEN ContextOf(s.ret) ELSE <<>>,
      issued         |-> s.issued,
      embeds         |-> s.embeds] :
        s \in SearchKnowledgeBaseResult(docs, idx, query, n, NoMeta, embedOK)}

\* Mutant of get_output_with_rag: the context is built before the language
\* model is looked for.
GetOutputSearchFirst(hasLlm, docs, idx, user_query, search_filter, embedOK, llmOK) ==
    LET search_query == IF user_query # NoQuery THEN user_query ELSE BasicPrompt IN
    {[outcome        |-> IF c.outcome # "ok" THEN c.outcome
                         ELSE IF ~hasLlm THEN "MissingModel"
                         ELSE IF llmOK THEN "ok" ELSE "LLMError",
      retrieved_docs |-> c.retrieved_docs,
      ret            |-> IF hasLlm THEN c.ret ELSE <<>>,
      issued         |-> c.issued,
      embeds         |-> c.embeds] :
        c \in BuildContextFromSearchResult(docs, idx, search_query,
                                           DefaultNResults, embedOK)}

\* get_output_with_rag.  The context it builds goes into the prompt; the
\* language model's answer is returned, or its error raised.
GetOutputWithRagResult(hasLlm, docs, idx, user_query, search_filter, embedOK, llmOK) ==
    IF ~hasLlm
    THEN {[outcome |-> "MissingModel", retrieved_docs |-> docs, ret |-> <<>>,
           issued |-> <<>>, embeds |-> 0]}
    ELSE LET search_query == IF user_query # NoQuery THEN user_query ELSE BasicPrompt IN
         {[outcome        |-> IF c.outcome # "ok" THEN c.outcome
                              ELSE IF llmOK THEN "ok" ELSE "LLMError",
           retrieved_docs |-> c.retrieved_docs,
           ret            |-> c.ret,
           issued         |-> c.issued,
           embeds         |-> c.embeds] :
             c \in BuildContextFromSearchResult(docs, idx, search_query,
                                                DefaultNResults, embedOK)}

\* What an agent call leaves behind.
AgentCall(op, args, r) ==
    /\ retrieved_docs' = r.retrieved_docs
    /\ agentSearch' = IF r.issued # <<>> /\ r.issued[Len(r.issued)].outcome = "ok"
                      THEN [issued |-> TRUE, results |-> r.issued[Len(r.issued)].results]
                      ELSE agentSearch
    /\ lastOp' = [op |-> op, outcome |-> r.outcome, args |-> args, ret |-> r.ret,
                  issued |-> r.issued, embeds |-> r.embeds, searches |-> Len(r.issued)]
    /\ UNCHANGED <<index, uuids, returned, llm>>

SearchKnowledgeBase(query, n, where, embedOK) ==
    \E r \in SearchKnowledgeBaseResult(retrieved_docs, index, query, n, where, embedOK) :
        AgentCall("search_knowledge_base", [query |-> query, n |-> n, where |-> where], r)

BuildContextFromSearch(query, n, embedOK) ==
    \E r \in BuildContextFromSearchResult(retrieved_docs, index, query, n, embedOK) :
        AgentCall("build_context_from_search", [query |-> query, n |-> n], r)

GetOutputWithRag(user_query, search_filter, embedOK, llmOK) ==
    \E r \in GetOutputWithRagResult(llm, retrieved_docs, index, user_query,
                                    search_filter, embedOK, llmOK) :
        AgentCall("get_output_with_rag",
                  [user_query |-> user_query, search_filter |-> search_filter], r)

\* The agent is given a language model.
SetLLM ==
    /\ ~llm
    /\ llm' = TRUE
    /\ lastOp' = [op |-> "set_llm", outcome |-> "ok", embeds |-> 0, searches |-> 0]
    /\ UNCHANGED <<index, uuids, returned, retrieved_docs, agentSearch>>

\* ----------------------------------------------------------- specification

Init ==
    /\ index = <<>>
    /\ uuids = 0
    /\ returned = <<>>
    /\ llm = FALSE
    /\ retrieved_docs = <<>>
    /\ agentSearch = [issued |-> FALSE, results |-> <<>>]
    /\ lastOp = [op |-> "init", outcome |-> "ok", embeds |-> 0, searches |-> 0]

\* The document store and its direct callers.
Next ==
    \/ \E f \in Files, meta \in CallerMetadata, embedOK \in BOOLEAN :
          AddDocument(f, meta, embedOK)
    \/ \E d \in KnownIds : DeleteDocument(d)
    \/ GetAllDocuments
    \/ \E q \in Queries, n \in NResults, w \in SearchFilters, embedOK \in BOOLEAN :
          SearchDocuments(q, n, w, embedOK)

Spec == Init /\ [][Next]_vars

\* The agent over a store that documents are added to and deleted from.
AgentNext ==
    \/ \E f \in Files : uuids < MaxAgentDocs /\ AddDocument(f, NoMeta, TRUE)
    \/ \E d \in KnownIds : DeleteDocument(d)
    \/ \E q \in Queries, n \in NResults, w \in SearchFilters, embedOK \in BOOLEAN :
          SearchKnowledgeBase(q, n, w, embedOK)
    \/ \E q \in Queries, n \in NResults, embedOK \in BOOLEAN :
          BuildContextFromSearch(q, n, embedOK)
    \/ \E q \in Queries \cup {NoQuery}, w \in SearchFilters, embedOK \in BOOLEAN,
          llmOK \in BOOLEAN :
          GetOutputWithRag(q, w, embedOK, llmOK)
    \/ SetLLM

AgentSpec == Init /\ [][AgentNext]_vars


\* ------------------------------------------------------------------ claims

Supported == {".pdf", ".docx", ".doc", ".txt"}

DocIdIs(e, d) == e.metadata["doc_id"] = d

\* C1: delete_document(id) leaves no entry whose doc_id metadata is id, keeps
\* every other entry as it was (and in place), raises nothing, and changes
\* nothing when no entry has that doc_id (a repeated delete, an id never
\* added).
C1_DeleteCompleteness ==
    [][lastOp'.op = "delete_document" =>
          /\ lastOp'.outcome = "ok"
          /\ \A i \in DOMAIN index' : ~DocIdIs(index'[i], lastOp'.doc_id)
          /\ index' = SelectSeq(index, LAMBDA e : ~DocIdIs(e, lastOp'.doc_id))
          /\ ((\A i \in DOMAIN index : ~DocIdIs(index[i], lastOp'.doc_id)) => index' = index)
      ]_vars

\* A delete that removed a two-chunk document and left another in the index.
C1_Witness ==
    /\ lastOp.op = "delete_document"
    /\ lastOp.removed >= 2
    /\ index # <<>>

\* C2 (as claimed): for every id d that add_document returned, the entries
\* whose chunk id starts with d + "_" are exactly the entries whose doc_id
\* metadata is d, whatever metadata the caller passed.
C2_ChunkSetIsDocIdSet ==
    \A d \in DOMAIN returned :
        {i \in DOMAIN index : StartsWithDoc(index[i].id, d)}
          = {i \in DOMAIN index : DocIdIs(index[i], d)}

\* C3 (as claimed): after add_document succeeds with k chunks and returns d,
\* get_all_documents() holds exactly one record for d and the index holds
\* exactly k entries whose doc_id metadata is d.
C3_OneRecordAndKEntries ==
    (lastOp.op = "add_document" /\ lastOp.outcome = "ok") =>
        LET all == GetAllDocumentsResult(index) IN
        /\ Cardinality({i \in DOMAIN all : all[i]["doc_id"] = lastOp.doc_id}) = 1
        /\ Cardinality({i \in DOMAIN index : DocIdIs(index[i], lastOp.doc_id)}) = lastOp.k

\* C4: when add_document fails (unsupported extension, extraction failure,
\* embedding failure) the error reaches the caller and the index is as it
\* was before the call.
C4_FailedAddWritesNothing ==
    [][lastOp'.op = "add_document" =>
          LET f == lastOp'.file IN
          /\ (Lower(Suffix(f)) \notin Supported => lastOp'.outcome = "UnsupportedFormat")
          /\ (Lower(Suffix(f)) \in Supported /\ ~Parses(f)
                => lastOp'.outcome = "ExtractionError")
          /\ (Lower(Suffix(f)) \in Supported /\ Parses(f) /\ ~lastOp'.embedOK
                => lastOp'.outcome = "EmbeddingFailure")
          /\ (lastOp'.outcome # "ok" => index' = index)
      ]_vars

\* The embedding call failed for a document with chunks, added to an index
\* that holds entries.
C4_Witness ==
    /\ lastOp.op = "add_document"
    /\ lastOp.outcome = "EmbeddingFailure"
    /\ lastOp.k >= 1
    /\ index # <<>>

\* C5 (as claimed): the total_chunks of every entry is the number of chunks
\* produced for its document at ingestion, whatever metadata the caller
\* passed, and no operation changes it.
C5_TotalChunksIsCount ==
    [][/\ \A i \in DOMAIN index' :
            index'[i].metadata["total_chunks"] = returned'[index'[i].id[1]]
       /\ \A i \in DOMAIN index, j \in DOMAIN index' :
            index[i].id = index'[j].id =>
               index'[j].metadata["total_chunks"] = index[i].metadata["total_chunks"]
      ]_vars

\* C6 (as claimed): a document whose text yields zero chunks (extraction and
\* embedding service working) completes add_document, is returned an
\* identifier, and adds no entry.
C6_ZeroChunksCompletes ==
    (/\ lastOp.op = "add_document"
     /\ ExtractTextFromFile(lastOp.file) = "ok"
     /\ SplitText(lastOp.file) = <<>>
     /\ lastOp.embedOK) =>
        /\ lastOp.outcome = "ok"
        /\ lastOp.doc_id \in DOMAIN returned
        /\ \A i \in DOMAIN index : ~StartsWithDoc(index[i].id, lastOp.doc_id)

\* What every returning search_documents call satisfies: at most n results,
\* each scored 1 - distance to the query, best first.
SearchReturnOK(op) ==
    op.outcome = "ok" =>
        /\ Len(op.ret) <= op.n
        /\ \A j \in DOMAIN op.ret :
              op.ret[j].score
                = One - Distance(EmbedText(op.query), EmbedText(op.ret[j].content))
        /\ \A j \in DOMAIN op.ret : Matches(op.ret[j].metadata, op.where)
        /\ \A i, j \in DOMAIN op.ret : i < j => op.ret[i].score >= op.ret[j].score

NothingMatches(op) ==
    \A i \in DOMAIN index : ~Matches(index[i].metadata, op.where)

C8_MissingModel ==
    [][(lastOp'.op = "get_output_with_rag" /\ ~llm) =>
          /\ lastOp'.outcome = "MissingModel"
          /\ lastOp'.searches = 0
          /\ lastOp'.embeds = 0
          /\ retrieved_docs' = retrieved_docs
          /\ agentSearch' = agentSearch
          /\ index' = index
      ]_vars

\* The call failed for want of a model while results were cached and the
\* index held entries.
C8_Witness ==
    /\ lastOp.op = "get_output_with_rag"
    /\ lastOp.outcome = "MissingModel"
    /\ retrieved_docs # <<>>
    /\ index # <<>>

\* C9: build_context_from_search returns the sentinel exactly when its search
\* returned no result (never the empty string, never an error); otherwise one
\* numbered section per result, in result order, after the heading.
C9_ContextFallback ==
    (lastOp.op = "build_context_from_search" /\ lastOp.issued[1].outcome = "ok") =>
        LET res == lastOp.issued[1].results
            ctx == lastOp.ret
        IN  /\ lastOp.outcome = "ok"
            /\ ctx \notin {<<>>, << <<"">> >>}
            /\ (ctx = NoDocumentsFound <=> res = <<>>)
            /\ res # <<>> =>
                  /\ Len(ctx) = 1 + 4 * Len(res)
                  /\ \A i \in DOMAIN res :
                        /\ ctx[4 * i - 2] = <<"">>
                        /\ ctx[4 * i - 1] = <<"--- Document", i, res[i].score>>
                        /\ ctx[4 * i] = <<"Source:", res[i].metadata["source"]>>
                        /\ ctx[4 * i + 1] = <<"Content:", res[i].content>>

\* A context built from two results.
C9_Witness ==
    /\ lastOp.op = "build_context_from_search"
    /\ lastOp.outcome = "ok"
    /\ Len(lastOp.issued[1].results) >= 2

\* C10: retrieved_docs is the result of the most recent search the agent
\* issued to the store, and get_output_with_rag searches with n_results = 5
\* and no filter whatever search_filter it was given.
C10_CacheIsLastSearch ==
    /\ agentSearch.issued => retrieved_docs = agentSearch.results
    /\ lastOp.op = "get_output_with_rag" =>
          \A i \in DOMAIN lastOp.issued :
              /\ lastOp.issued[i].n = DefaultNResults
              /\ lastOp.issued[i].where = NoMeta

\* A generation call given a filter on source lab.PDF cached a result from
\* another source.
C10_Witness ==
    /\ lastOp.op = "get_output_with_rag"
    /\ lastOp.outcome = "ok"
    /\ lastOp.args.search_filter = [source |-> "lab.PDF"]
    /\ retrieved_docs # <<>>
    /\ retrieved_docs[1].metadata["source"] = "notes.txt"

=============================================================================
